---- MODULE Spec2Model ----
(***************************************************************************)
(* Round state machine and guess adjudication of the autocomplete guessing *)
(* game server (src/main.py).                                              *)
(*                                                                         *)
(* and of its front end (src/gradio_frontend.py).                          *)
(*                                                                         *)
(* Python lists are modelled as sequences: list index i (0-based) is       *)
(* sequence position i + 1.  Text is a sequence of one-character strings.  *)
(* A request handler is a coroutine: it runs atomically between awaits, so *)
(* each handler is split at its single await into a Call and a Resume step.*)
(***************************************************************************)
EXTENDS Integers, Sequences, FiniteSets, TLC

VARIABLES
    round_states_by_identifier, \* the process-wide round store
    requests,                   \* per request slot: position of its coroutine
    last,                       \* the response sent by the step just taken, if any
    first_matched,              \* history: indices matched while still hidden
    client                      \* the globals of the front end (src/gradio_frontend.py)

vars == <<round_states_by_identifier, requests, last, first_matched, client>>

----------------------------------------------------------------------------
(* Bounds of the model *)

NumRequests == 2        \* request slots that may be in flight at once
MaxRounds == 2          \* rounds that may be created
MaxStrikesArg == 2      \* largest maximum_strikes a client sends
StrikeCap == 2          \* no guess is accepted by the model on a round
                        \* that already has this many strikes
MaxTagEntries == 2      \* matching suggestions the source returns at most
                        \* while guesses are played
MaxSourceEntries == 12  \* entries the source returns at most when only the
                        \* fetch is exercised

Requests == 1..NumRequests
RoundIdentifiers == 1..MaxRounds

----------------------------------------------------------------------------
(* Text *)

StartsWith(text, prefix) ==
    /\ Len(prefix) <= Len(text)
    /\ SubSeq(text, 1, Len(prefix)) = prefix

\* Variant: the whole list, never cut
TakeAll(seq, n) == seq

Take(seq, n) == SubSeq(seq, 1, IF Len(seq) < n THEN Len(seq) ELSE n)

----------------------------------------------------------------------------
(* Python values as produced by json.loads / response.json()              *)
(*   [j |-> "null"], [j |-> "bool", v], [j |-> "int", v],                 *)
(*   [j |-> "float", twice] (the number twice/2), [j |-> "str", v],       *)
(*   [j |-> "list", items], [j |-> "obj", fields] (fields: key -> value)  *)

PyNone == [j |-> "null"]
PyBoolean(b) == [j |-> "bool", v |-> b]
PyInteger(n) == [j |-> "int", v |-> n]
PyFloat(twice) == [j |-> "float", twice |-> twice]
PyStr(text) == [j |-> "str", v |-> text]
PyList(items) == [j |-> "list", items |-> items]
PyDict(fields) == [j |-> "obj", fields |-> fields]
\* a str holding a whole document, described by how it parses (see Strip, Parses)
PyDocument(text) == [j |-> "doc", text |-> text]

\* dict.get(key, default); on anything but a dict the attribute lookup fails
HasGet(value) == value.j = "obj"

Get(value, key, default) ==
    IF key \in DOMAIN value.fields THEN value.fields[key] ELSE default

\* Python truthiness, as used by bool(x), `if not x` and `if x`
Truthy(value) ==
    CASE value.j = "null" -> FALSE
      [] value.j = "bool" -> value.v
      [] value.j = "int" -> value.v # 0
      [] value.j = "float" -> value.twice # 0
      [] value.j = "str" -> value.v # <<>>
      [] value.j = "list" -> value.items # <<>>
      [] value.j = "obj" -> DOMAIN value.fields # {}
      [] value.j = "doc" -> value.text.form # "empty"

Digits == <<"0", "1", "2", "3", "4", "5", "6", "7", "8", "9">>

IsDigit(c) == \E d \in 1..Len(Digits) : Digits[d] = c

DigitValue(c) == (CHOOSE d \in 1..Len(Digits) : Digits[d] = c) - 1

RECURSIVE DigitsValue(_)
DigitsValue(text) ==
    IF text = <<>> THEN 0
    ELSE 10 * DigitsValue(SubSeq(text, 1, Len(text) - 1)) + DigitValue(text[Len(text)])

AllDigits(text) == text # <<>> /\ \A k \in 1..Len(text) : IsDigit(text[k])

\* int(x): [ok |-> TRUE, v |-> n], or [ok |-> FALSE] for TypeError / ValueError
IntFailure == [ok |-> FALSE]
IntSuccess(n) == [ok |-> TRUE, v |-> n]

IntOfText(text) ==
    IF AllDigits(text) THEN IntSuccess(DigitsValue(text))
    ELSE IF text # <<>> /\ Head(text) = "-" /\ AllDigits(Tail(text))
         THEN IntSuccess(0 - DigitsValue(Tail(text)))
    ELSE IF text # <<>> /\ Head(text) = "+" /\ AllDigits(Tail(text))
         THEN IntSuccess(DigitsValue(Tail(text)))
    ELSE IntFailure

\* float -> int truncates toward zero
Truncate(twice) == IF twice >= 0 THEN twice \div 2 ELSE 0 - ((0 - twice) \div 2)

PyInt(value) ==
    CASE value.j = "int" -> IntSuccess(value.v)
      [] value.j = "bool" -> IntSuccess(IF value.v THEN 1 ELSE 0)
      [] value.j = "float" -> IntSuccess(Truncate(value.twice))
      [] value.j = "str" -> IntOfText(value.v)
      [] OTHER -> IntFailure

\* The text of an HTTP body or of the model's output, by how it parses:
\*   empty, blank (whitespace only), garbage (not JSON), or JSON text
EmptyText == [form |-> "empty"]
BlankText == [form |-> "blank"]
GarbageText == [form |-> "garbage"]
JsonText(value) == [form |-> "json", value |-> value]

\* str.strip()
Strip(text) == IF text.form = "blank" THEN EmptyText ELSE text

\* json.loads / response.json(): the value, or JSONDecodeError
Parses(text) == text.form = "json"

\* str(x) of a parsed value, as the text json.loads is then given
Str(value) ==
    CASE value.j = "doc" -> value.text
      [] value.j = "int" -> JsonText(value)
      [] value.j = "list" /\ value.items = <<>> -> JsonText(value)
      [] value.j = "obj" /\ DOMAIN value.fields = {} -> JsonText(value)
      [] OTHER -> GarbageText   \* None, True, 'single quoted' reprs

----------------------------------------------------------------------------
(* Program constants *)

MaxAnswers == 10

\* points_by_index[index], index 0-based
points_by_index(index) == 1000 - index * 100

----------------------------------------------------------------------------
(* fetch_bilibili_suggestion_terms *)

FetchRaised(status) == [ok |-> FALSE, status |-> status]
\* found: how many terms matched before the list was cut (history)
FetchReturned(terms, found) == [ok |-> TRUE, terms |-> terms, found |-> found]

\* every element of tag_entries supports .get
EntriesHaveGet(tag_entries) == \A k \in 1..Len(tag_entries) : HasGet(tag_entries[k])

\* [entry.get("term", "") for entry in tag_entries if entry.get("term")]
RECURSIVE full_terms(_)
full_terms(tag_entries) ==
    IF tag_entries = <<>> THEN <<>>
    ELSE LET term == Get(Head(tag_entries), "term", PyStr(<<>>))
         IN  (IF Truthy(Get(Head(tag_entries), "term", PyNone)) THEN <<term>> ELSE <<>>)
             \o full_terms(Tail(tag_entries))

\* the loop appending every full_term that starts with the prefix
RECURSIVE filtered_terms(_, _)
filtered_terms(terms, search_term_prefix) ==
    IF terms = <<>> THEN <<>>
    ELSE (IF StartsWith(Head(terms).v, search_term_prefix) THEN <<Head(terms).v>> ELSE <<>>)
         \o filtered_terms(Tail(terms), search_term_prefix)

\* source: [t |-> "failure"] (connect error, timeout) or [t |-> "body", text |-> ...]
fetch_bilibili_suggestion_terms(search_term_prefix, source) ==
    IF source.t = "failure" THEN FetchRaised(500)
    ELSE IF source.text.form = "empty" THEN FetchRaised(502)
    ELSE IF ~Parses(source.text) THEN FetchRaised(502)
    ELSE LET response_data == source.text.value IN
    IF ~HasGet(response_data) THEN FetchRaised(500)
    ELSE LET data_section == Get(response_data, "data", PyNone) IN
    IF ~Truthy(data_section) THEN FetchReturned(<<>>, 0)
    ELSE IF ~HasGet(data_section) THEN FetchRaised(500)
    ELSE LET result_section == Get(data_section, "result", PyNone) IN
    IF ~Truthy(result_section) THEN FetchReturned(<<>>, 0)
    ELSE IF ~HasGet(result_section) THEN FetchRaised(500)
    ELSE LET tag_entries == Get(result_section, "tag", PyList(<<>>)) IN
    IF tag_entries.j # "list" \/ ~EntriesHaveGet(tag_entries.items) THEN FetchRaised(500)
    ELSE LET terms == full_terms(tag_entries.items) IN
    IF \E k \in 1..Len(terms) : terms[k].j # "str" THEN FetchRaised(500)
    ELSE FetchReturned(Take(filtered_terms(terms, search_term_prefix), MaxAnswers),
                       Len(filtered_terms(terms, search_term_prefix)))

----------------------------------------------------------------------------
(* judge_guess_with_ollama *)

NoMatch == PyDict([is_correct |-> PyBoolean(FALSE), correct_index |-> PyInteger(-1)])

JudgeRaised(path) == [raised |-> TRUE, path |-> path]
JudgeReturned(path, judge_result) ==
    [raised |-> FALSE, path |-> path, judge_result |-> judge_result]

\* Variant: an output that is empty or not JSON is raised like a bad transport body
judge_guess_with_ollama_raising(reply) ==
    IF reply.t = "failure" THEN JudgeRaised("transport")
    ELSE IF ~Parses(reply.text) THEN JudgeRaised("outer_undecodable")
    ELSE LET response_data == reply.text.value IN
    IF ~HasGet(response_data) THEN JudgeRaised("outer_shape")
    ELSE LET raw_model_output_text ==
                 Strip(Str(Get(response_data, "response", PyDocument(EmptyText)))) IN
    IF raw_model_output_text.form = "empty" THEN JudgeRaised("empty")
    ELSE IF ~Parses(raw_model_output_text) THEN JudgeRaised("undecodable")
    ELSE JudgeReturned("parsed", raw_model_output_text.value)

\* reply: [t |-> "failure"] (timeout, connect error) or [t |-> "body", text |-> ...]
judge_guess_with_ollama(reply) ==
    IF reply.t = "failure" THEN JudgeRaised("transport")
    ELSE IF ~Parses(reply.text) THEN JudgeRaised("outer_undecodable")  \* raise problem
    ELSE LET response_data == reply.text.value IN
    IF ~HasGet(response_data) THEN JudgeRaised("outer_shape")
    ELSE LET raw_model_output_text ==
                 Strip(Str(Get(response_data, "response", PyDocument(EmptyText)))) IN
    IF raw_model_output_text.form = "empty" THEN JudgeReturned("empty", NoMatch)
    ELSE IF ~Parses(raw_model_output_text) THEN JudgeReturned("undecodable", NoMatch)
    ELSE JudgeReturned("parsed", raw_model_output_text.value)

----------------------------------------------------------------------------
(* submit_guess: the code after the await of the judge *)

\* is_correct_from_model, correct_index_from_model as first assigned
CoercionRaised == [raised |-> TRUE]
Coerced(is_correct, correct_index) ==
    [raised |-> FALSE, is_correct |-> is_correct, correct_index |-> correct_index]

CoerceVerdict(judge_result) ==
    IF ~HasGet(judge_result) THEN CoercionRaised
    ELSE LET is_correct_from_model ==
                 Truthy(Get(judge_result, "is_correct", PyBoolean(FALSE)))
             correct_index_from_model ==
                 PyInt(Get(judge_result, "correct_index", PyInteger(-1)))
         IN  IF ~correct_index_from_model.ok THEN CoercionRaised
             ELSE Coerced(is_correct_from_model, correct_index_from_model.v)

\* Variant: an index past the end is clamped to the last answer
ValidateIndexClamping(verdict, round_state) ==
    IF verdict.correct_index < 0 \/ Len(round_state.answer_full_terms) = 0
    THEN Coerced(FALSE, -1)
    ELSE IF verdict.correct_index >= Len(round_state.answer_full_terms)
    THEN Coerced(verdict.is_correct, Len(round_state.answer_full_terms) - 1)
    ELSE verdict

\* an index out of range is a miss
ValidateIndex(verdict, round_state) ==
    IF verdict.correct_index < 0
       \/ verdict.correct_index >= Len(round_state.answer_full_terms)
    THEN Coerced(FALSE, -1)
    ELSE verdict

\* Variant: a repeated match scores again
ApplyVerdictScoringRepeats(round_state, verdict) ==
    IF ~verdict.is_correct
    THEN [round_state EXCEPT !.strikes = @ + 1]
    ELSE [round_state EXCEPT
             !.revealed_flags[verdict.correct_index + 1] = TRUE,
             !.score = @ + points_by_index(verdict.correct_index)]

\* Variant: a repeated match counts as a strike
ApplyVerdictStrikingRepeats(round_state, verdict) ==
    IF ~verdict.is_correct \/ round_state.revealed_flags[verdict.correct_index + 1]
    THEN [round_state EXCEPT !.strikes = @ + 1]
    ELSE [round_state EXCEPT
             !.revealed_flags[verdict.correct_index + 1] = TRUE,
             !.score = @ + points_by_index(verdict.correct_index)]

\* Variant: a first match takes the strikes back
ApplyVerdictForgiving(round_state, verdict) ==
    IF ~verdict.is_correct
    THEN [round_state EXCEPT !.strikes = @ + 1]
    ELSE IF ~round_state.revealed_flags[verdict.correct_index + 1]
         THEN [round_state EXCEPT
                  !.revealed_flags[verdict.correct_index + 1] = TRUE,
                  !.score = @ + points_by_index(verdict.correct_index),
                  !.strikes = 0]
         ELSE round_state

\* strike, or reveal and score, or nothing
ApplyVerdict(round_state, verdict) ==
    IF ~verdict.is_correct
    THEN [round_state EXCEPT !.strikes = @ + 1]
    ELSE IF ~round_state.revealed_flags[verdict.correct_index + 1]
         THEN [round_state EXCEPT
                  !.revealed_flags[verdict.correct_index + 1] = TRUE,
                  !.score = @ + points_by_index(verdict.correct_index)]
         ELSE round_state

GameOver(round_state) == round_state.strikes >= round_state.maximum_strikes

\* Variant: at game over only the matched answers stay revealed
RevealAtGameOverMatched(round_state) == round_state

\* at game over every answer is marked revealed
RevealAtGameOver(round_state) ==
    IF GameOver(round_state)
    THEN [round_state EXCEPT
             !.revealed_flags = [k \in 1..Len(round_state.revealed_flags) |-> TRUE]]
    ELSE round_state

Hidden == <<"None">>

\* zip(revealed_flags, answer_full_terms): the shorter of the two lists
RevealedAnswers(round_state) ==
    LET n == IF Len(round_state.revealed_flags) < Len(round_state.answer_full_terms)
             THEN Len(round_state.revealed_flags)
             ELSE Len(round_state.answer_full_terms)
    IN  [k \in 1..n |-> IF round_state.revealed_flags[k]
                        THEN round_state.answer_full_terms[k]
                        ELSE Hidden]

GuessResponse(round_state, verdict) ==
    [is_correct |-> verdict.is_correct /\ verdict.correct_index # -1,
     correct_index |-> verdict.correct_index,
     revealed_answers |-> RevealedAnswers(round_state),
     score |-> round_state.score,
     strikes |-> round_state.strikes,
     game_over |-> GameOver(round_state),
     search_term_prefix |-> round_state.search_term_prefix]

----------------------------------------------------------------------------
(* start_round: the code after the await of the fetch *)

NewRoundState(search_term_prefix, answer_full_terms, maximum_strikes) ==
    [search_term_prefix |-> search_term_prefix,
     answer_full_terms |-> answer_full_terms,
     revealed_flags |-> [k \in 1..Len(answer_full_terms) |-> FALSE],
     score |-> 0,
     strikes |-> 0,
     maximum_strikes |-> maximum_strikes]

StartRoundResponse(round_identifier, round_state) ==
    [round_identifier |-> round_identifier,
     masked_answers |-> [k \in 1..Len(round_state.answer_full_terms) |-> Hidden],
     maximum_strikes |-> round_state.maximum_strikes,
     search_term_prefix |-> round_state.search_term_prefix]

----------------------------------------------------------------------------
(* Inputs: what clients send and what the two external services answer *)

Prefixes == {<<"c">>}
MaximumStrikesArgs == 0..MaxStrikesArg
UnknownIdentifier == 0
GuessIdentifiers == RoundIdentifiers \cup {UnknownIdentifier}

Letters == <<"a", "b", "c", "d", "e", "f", "g", "h", "i", "j", "k", "l", "m", "n", "o", "p">>
SourceTerm(k) == <<"c", Letters[k]>>
Entry(text) == PyDict([term |-> PyStr(text)])
TagList(n) == [k \in 1..n |-> Entry(SourceTerm(k))]
\* entries the fetch drops: wrong case, no term, empty term
DroppedEntries == <<Entry(<<"C", "a">>), PyDict(<<>>), Entry(<<>>)>>
SuggestBody(tag_entries) ==
    [t |-> "body",
     text |-> JsonText(PyDict([data |-> PyDict([result |->
                  PyDict([tag |-> PyList(tag_entries)])])]))]

AllSourceReplies ==
    {[t |-> "failure"],
     [t |-> "body", text |-> EmptyText],
     [t |-> "body", text |-> GarbageText],
     [t |-> "body", text |-> JsonText(PyList(<<>>))],
     [t |-> "body", text |-> JsonText(PyDict(<<>>))],
     [t |-> "body", text |-> JsonText(PyDict([data |-> PyDict(<<>>)]))]}
    \cup {SuggestBody(TagList(n)) : n \in 0..MaxTagEntries}
    \cup {SuggestBody(DroppedEntries \o TagList(n)) : n \in 0..MaxTagEntries}
\* Lists of up to MaxSourceEntries entries: every entry matching; every other
\* entry one that the fetch drops; the first entry in the wrong case
Patterns == {"all", "alternate", "tail"}
PatternEntry(k, pattern) ==
    CASE pattern = "all" -> Entry(SourceTerm(k))
      [] pattern = "alternate" ->
             IF k % 2 = 0 THEN Entry(SourceTerm(k)) ELSE DroppedEntries[((k \div 2) % 3) + 1]
      [] pattern = "tail" -> IF k = 1 THEN Entry(<<"C", "a">>) ELSE Entry(SourceTerm(k))
SourceList(n, pattern) == [k \in 1..n |-> PatternEntry(k, pattern)]
\* data without result, result empty
NoResultReplies ==
    {[t |-> "body", text |-> JsonText(PyDict([data |-> PyDict([other |-> PyInteger(1)])]))],
     [t |-> "body", text |-> JsonText(PyDict([data |-> PyDict([result |-> PyDict(<<>>)])]))]}
ListReplies ==
    {SuggestBody(SourceList(n, pattern)) : n \in 0..MaxSourceEntries, pattern \in Patterns}
    \cup {SuggestBody(DroppedEntries \o TagList(n)) : n \in 0..MaxTagEntries}
FetchSourceReplies == AllSourceReplies \cup NoResultReplies \cup ListReplies
\* prefixes that tell the case of a letter, a longer prefix and the empty one apart
FetchPrefixes == {<<"c">>, <<"C">>, <<"c", "a">>, <<>>}

\* one body or more for each path through the fetch
SourceReplies ==
    {[t |-> "failure"],
     [t |-> "body", text |-> EmptyText],
     [t |-> "body", text |-> GarbageText],
     [t |-> "body", text |-> JsonText(PyDict(<<>>))],
     SuggestBody(DroppedEntries \o TagList(MaxTagEntries))}
\* the ceilings sent when several rounds are played
RoundsStrikesArgs == {1, MaxStrikesArg}

Absent == [j |-> "absent"]
IsCorrectValues == {Absent, PyBoolean(TRUE), PyBoolean(FALSE), PyNone, PyStr(<<"n", "o">>)}
JudgedIndexes == (0 - 1)..MaxTagEntries
CorrectIndexValues ==
    {Absent, PyNone, PyBoolean(TRUE), PyStr(<<"x">>), PyStr(<<"1">>), PyStr(<<"-", "2">>),
     PyFloat(0 - 1), PyFloat(3), PyInteger(0 - 2)}
    \cup {PyInteger(i) : i \in JudgedIndexes}
VerdictObject(is_correct, correct_index) ==
    PyDict([key \in (IF is_correct = Absent THEN {} ELSE {"is_correct"})
                    \cup (IF correct_index = Absent THEN {} ELSE {"correct_index"})
            |-> IF key = "is_correct" THEN is_correct ELSE correct_index])
\* true and false with every integer index, every other is_correct with the first
\* index and the one past the end, every other index with is_correct true
VerdictObjects ==
    {VerdictObject(PyBoolean(b), PyInteger(i)) : b \in BOOLEAN, i \in JudgedIndexes}
    \cup {VerdictObject(ic, PyInteger(i)) : ic \in IsCorrectValues, i \in {0, MaxTagEntries}}
    \cup {VerdictObject(PyBoolean(TRUE), ci) : ci \in CorrectIndexValues}

ModelOutputs ==
    {EmptyText, BlankText, GarbageText}
    \cup {JsonText(v) : v \in {PyNone, PyInteger(0), PyList(<<>>), PyStr(<<"a">>)}}
    \cup {JsonText(v) : v \in VerdictObjects}
OllamaBody(value) == [t |-> "body", text |-> JsonText(value)]
OllamaOutput(text) == OllamaBody(PyDict([response |-> PyDocument(text)]))
\* every reply the model considers
AllJudgeReplies ==
    {[t |-> "failure"],
     [t |-> "body", text |-> EmptyText],
     [t |-> "body", text |-> GarbageText],
     OllamaBody(PyList(<<>>)),
     OllamaBody(PyDict(<<>>)),
     OllamaBody(PyDict([response |-> PyNone]))}
    \cup {OllamaOutput(text) : text \in ModelOutputs}
\* one reply or more for each path through the judge adapter and the reconciliation
JudgeReplies ==
    {[t |-> "failure"],
     OllamaOutput(EmptyText),
     OllamaOutput(JsonText(PyNone)),
     OllamaOutput(JsonText(VerdictObject(PyBoolean(FALSE), PyInteger(0))))}
    \cup {OllamaOutput(JsonText(VerdictObject(PyBoolean(TRUE), PyInteger(i)))) :
              i \in 0..MaxTagEntries}

----------------------------------------------------------------------------
(* The front end's globals as the module is loaded (gradio_frontend.py 7-13) *)

\* current_round_id = None: no round identifier of the server
NoRoundYet == 0

InitialClient ==
    [current_round_id |-> NoRoundYet,
     current_guessed_flags |-> <<>>,
     pc |-> "ready",          \* ready, or blocked in requests.post of start / guess
     slot |-> 0,              \* the server's request slot serving that post
     message |-> "none"]      \* what the handler last reported to the player

----------------------------------------------------------------------------
(* State machine *)

Idle == [pc |-> "idle"]
NoResponse == [op |-> "none"]
ErrorResponse(op, status, round_identifier, path) ==
    [op |-> op, status |-> status, round_identifier |-> round_identifier, path |-> path]
\* coerced: the verdict as read from the judge's result, before the range check
\* branch: which branch of lines 244-256 the handler took
OkResponse(op, round_identifier, path, coerced, branch, body) ==
    [op |-> op, status |-> 200, round_identifier |-> round_identifier, path |-> path,
     coerced |-> coerced, branch |-> branch, body |-> body]

Init ==
    /\ round_states_by_identifier = <<>>
    /\ requests = [r \in Requests |-> Idle]
    /\ last = NoResponse
    /\ first_matched = <<>>
    /\ client = InitialClient

Stored == DOMAIN round_states_by_identifier

InFlight(pc) == {r \in Requests : requests[r].pc = pc}

\* request slots are interchangeable: an arriving request takes the lowest free one
FreeSlot(r) == requests[r] = Idle /\ \A q \in 1..(r - 1) : requests[q] # Idle

\* POST /api/start_round arrives; the handler runs up to the await of the fetch
StartRoundCall(r, search_term_prefix, maximum_strikes) ==
    /\ FreeSlot(r)
    /\ Cardinality(Stored) + Cardinality(InFlight("fetch")) < MaxRounds
    /\ requests' = [requests EXCEPT ![r] =
           [pc |-> "fetch", search_term_prefix |-> search_term_prefix,
            maximum_strikes |-> maximum_strikes]]
    /\ last' = NoResponse
    /\ UNCHANGED <<round_states_by_identifier, first_matched>>

\* uuid.uuid4(): an identifier no stored round has; identifiers are opaque, so the
\* model hands them out in order
\* Variant: an identifier that may already be a key of the store
NewIdentifierReused == CHOOSE id \in RoundIdentifiers : \A other \in RoundIdentifiers : id <= other

NewIdentifier == CHOOSE id \in RoundIdentifiers \ Stored :
                     \A other \in RoundIdentifiers \ Stored : id <= other

\* Variant: the round is stored before the fetch is awaited, so a failed fetch
\* leaves a round without answers behind
StartRoundResumePartial(r, source) ==
    /\ requests[r].pc = "fetch"
    /\ LET fetched == fetch_bilibili_suggestion_terms(requests[r].search_term_prefix, source)
           round_identifier == NewIdentifier
           round_state == NewRoundState(requests[r].search_term_prefix,
                              IF fetched.ok THEN fetched.terms ELSE <<>>,
                              requests[r].maximum_strikes)
       IN  /\ round_states_by_identifier' =
                  [id \in Stored \cup {round_identifier} |->
                      IF id = round_identifier THEN round_state
                      ELSE round_states_by_identifier[id]]
           /\ first_matched' =
                  [id \in Stored \cup {round_identifier} |->
                      IF id = round_identifier THEN {} ELSE first_matched[id]]
           /\ last' = IF fetched.ok
                      THEN OkResponse("start_round", round_identifier, "fetch",
                               Coerced(FALSE, -1), "created",
                               StartRoundResponse(round_identifier, round_state))
                      ELSE ErrorResponse("start_round", fetched.status,
                               UnknownIdentifier, "fetch")
    /\ requests' = [requests EXCEPT ![r] = Idle]

\* the fetch completes; the handler runs to its end
StartRoundResume(r, source) ==
    /\ requests[r].pc = "fetch"
    /\ LET fetched == fetch_bilibili_suggestion_terms(requests[r].search_term_prefix, source)
       IN  IF ~fetched.ok
           THEN /\ last' = ErrorResponse("start_round", fetched.status, UnknownIdentifier, "fetch")
                /\ UNCHANGED <<round_states_by_identifier, first_matched>>
           ELSE LET round_identifier == NewIdentifier
                    round_state == NewRoundState(requests[r].search_term_prefix,
                                       fetched.terms, requests[r].maximum_strikes)
                IN  /\ round_states_by_identifier' =
                           [id \in Stored \cup {round_identifier} |->
                               IF id = round_identifier THEN round_state
                               ELSE round_states_by_identifier[id]]
                    /\ first_matched' =
                           [id \in Stored \cup {round_identifier} |->
                               IF id = round_identifier THEN {} ELSE first_matched[id]]
                    /\ last' = OkResponse("start_round", round_identifier,
                                   IF fetched.found > Len(fetched.terms) THEN "cut" ELSE "fetch",
                                   Coerced(FALSE, -1), "created",
                                   StartRoundResponse(round_identifier, round_state))
    /\ requests' = [requests EXCEPT ![r] = Idle]

\* Variant: an unknown identifier silently gets an empty round and is judged
SubmitGuessCallDefaulting(r, round_identifier) ==
    /\ FreeSlot(r)
    /\ IF round_identifier \notin Stored
       THEN /\ round_states_by_identifier' =
                   [id \in Stored \cup {round_identifier} |->
                       IF id = round_identifier THEN NewRoundState(<<>>, <<>>, 1)
                       ELSE round_states_by_identifier[id]]
            /\ first_matched' =
                   [id \in Stored \cup {round_identifier} |->
                       IF id = round_identifier THEN {} ELSE first_matched[id]]
       ELSE /\ round_states_by_identifier[round_identifier].strikes < StrikeCap
            /\ UNCHANGED <<round_states_by_identifier, first_matched>>
    /\ requests' = [requests EXCEPT ![r] =
           [pc |-> "judge", round_identifier |-> round_identifier]]
    /\ last' = NoResponse

\* Variant: one lock for the whole store, held across the judge call
SubmitGuessCallSerialized(r, round_identifier) ==
    /\ FreeSlot(r)
    /\ InFlight("judge") = {}
    /\ IF round_identifier \notin Stored
       THEN /\ last' = ErrorResponse("submit_guess", 404, round_identifier, "lookup")
            /\ UNCHANGED <<round_states_by_identifier, requests, first_matched>>
       ELSE /\ round_states_by_identifier[round_identifier].strikes < StrikeCap
            /\ requests' = [requests EXCEPT ![r] =
                   [pc |-> "judge", round_identifier |-> round_identifier]]
            /\ last' = NoResponse
            /\ UNCHANGED <<round_states_by_identifier, first_matched>>

\* POST /api/guess arrives; the handler runs up to the await of the judge
SubmitGuessCall(r, round_identifier) ==
    /\ FreeSlot(r)
    /\ IF round_identifier \notin Stored
       THEN /\ last' = ErrorResponse("submit_guess", 404, round_identifier, "lookup")
            /\ UNCHANGED <<round_states_by_identifier, requests, first_matched>>
       ELSE /\ round_states_by_identifier[round_identifier].strikes < StrikeCap
            /\ requests' = [requests EXCEPT ![r] =
                   [pc |-> "judge", round_identifier |-> round_identifier]]
            /\ last' = NoResponse
            /\ UNCHANGED <<round_states_by_identifier, first_matched>>

\* the branch of lines 244-256 that a validated verdict selects
Branch(round_state, verdict) ==
    IF ~verdict.is_correct THEN "miss"
    ELSE IF ~round_state.revealed_flags[verdict.correct_index + 1] THEN "first"
    ELSE "repeat"

\* lines 244-283: the verdict is applied and the response built
Reconcile(r, round_identifier, round_state, path, coerced, verdict, updated) ==
    /\ round_states_by_identifier' =
           [round_states_by_identifier EXCEPT ![round_identifier] = updated]
    /\ first_matched' =
           IF verdict.is_correct /\ ~round_state.revealed_flags[verdict.correct_index + 1]
           THEN [first_matched EXCEPT ![round_identifier] = @ \cup {verdict.correct_index}]
           ELSE first_matched
    /\ last' = OkResponse("submit_guess", round_identifier, path, coerced,
                   Branch(round_state, verdict), GuessResponse(updated, verdict))

\* Variant: the test of the flag is not repeated after the await, so it is lost
\* whenever another guess is suspended on the same round
ValidateInterleaved(r, round_identifier, round_state, path, coerced, verdict) ==
    Reconcile(r, round_identifier, round_state, path, coerced, verdict,
              RevealAtGameOver(
                  IF \E q \in InFlight("judge") \ {r} :
                         requests[q].round_identifier = round_identifier
                  THEN ApplyVerdictScoringRepeats(round_state, verdict)
                  ELSE ApplyVerdict(round_state, verdict)))

\* lines 239-242, then the rest
Validate(r, round_identifier, round_state, path, coerced, verdict) ==
    Reconcile(r, round_identifier, round_state, path, coerced, verdict,
              RevealAtGameOver(ApplyVerdict(round_state, verdict)))

\* Variant: a verdict that cannot be read is counted as a strike before the error
CoerceCountingStrike(r, round_identifier, round_state, path, coerced) ==
    IF coerced.raised
    THEN /\ last' = ErrorResponse("submit_guess", 500, round_identifier, "coercion")
         /\ round_states_by_identifier' =
                [round_states_by_identifier EXCEPT ![round_identifier].strikes = @ + 1]
         /\ UNCHANGED first_matched
    ELSE Validate(r, round_identifier, round_state, path, coerced,
                  ValidateIndex(coerced, round_state))

\* lines 236-237, then the rest
Coerce(r, round_identifier, round_state, path, coerced) ==
    IF coerced.raised
    THEN /\ last' = ErrorResponse("submit_guess", 500, round_identifier, "coercion")
         /\ UNCHANGED <<round_states_by_identifier, first_matched>>
    ELSE Validate(r, round_identifier, round_state, path, coerced,
                  ValidateIndex(coerced, round_state))

Judged(r, round_identifier, judged) ==
    IF judged.raised
    THEN /\ last' = ErrorResponse("submit_guess", 500, round_identifier, judged.path)
         /\ UNCHANGED <<round_states_by_identifier, first_matched>>
    ELSE Coerce(r, round_identifier, round_states_by_identifier[round_identifier],
                judged.path, CoerceVerdict(judged.judge_result))

\* the judge call completes; the handler runs to its end
SubmitGuessResume(r, reply) ==
    /\ requests[r].pc = "judge"
    /\ requests' = [requests EXCEPT ![r] = Idle]
    /\ Judged(r, requests[r].round_identifier, judge_guess_with_ollama(reply))

\* start_round called while no round exists and none is being created
StartFirstRoundCall(r, search_term_prefix, maximum_strikes) ==
    /\ Stored = {}
    /\ InFlight("fetch") = {}
    /\ StartRoundCall(r, search_term_prefix, maximum_strikes)

\* The server serving one round: every judge reply of the model
Next ==
    \/ \E r \in Requests, p \in Prefixes, m \in MaximumStrikesArgs :
           StartFirstRoundCall(r, p, m) /\ UNCHANGED client
    \/ \E r \in Requests, source \in AllSourceReplies :
           StartRoundResume(r, source) /\ UNCHANGED client
    \/ \E r \in Requests, id \in GuessIdentifiers :
           SubmitGuessCall(r, id) /\ UNCHANGED client
    \/ \E r \in Requests, reply \in AllJudgeReplies :
           SubmitGuessResume(r, reply) /\ UNCHANGED client

Spec == Init /\ [][Next]_vars

\* The server serving up to MaxRounds rounds: one judge reply or more for each path
NextRounds ==
    \/ \E r \in Requests, p \in Prefixes, m \in RoundsStrikesArgs :
           StartRoundCall(r, p, m) /\ UNCHANGED client
    \/ \E r \in Requests, source \in SourceReplies :
           StartRoundResume(r, source) /\ UNCHANGED client
    \/ \E r \in Requests, id \in GuessIdentifiers :
           SubmitGuessCall(r, id) /\ UNCHANGED client
    \/ \E r \in Requests, reply \in JudgeReplies :
           SubmitGuessResume(r, reply) /\ UNCHANGED client

SpecRounds == Init /\ [][NextRounds]_vars

\* The server asked for one round: every prefix and every list of the source
NextFetch ==
    \/ \E r \in Requests, p \in FetchPrefixes, m \in MaximumStrikesArgs :
           StartFirstRoundCall(r, p, m) /\ UNCHANGED client
    \/ \E r \in Requests, source \in FetchSourceReplies :
           StartRoundResume(r, source) /\ UNCHANGED client

SpecFetch == Init /\ [][NextFetch]_vars

----------------------------------------------------------------------------
(* The front end (src/gradio_frontend.py): one handler at a time, each split *)
(* at its blocking requests.post                                             *)

ClientReady(c, message) == [c EXCEPT !.pc = "ready", !.slot = 0, !.message = message]

\* start_round, lines 26-42, given the server's response
start_round_returned(c, response) ==
    IF response.status = 500 THEN ClientReady(c, "start_failed")   \* resp.json() raises
    ELSE IF response.status # 200 THEN ClientReady(c, "KeyError")  \* data["round_identifier"]
    ELSE [current_round_id |-> response.body.round_identifier,
          current_guessed_flags |-> [k \in 1..Len(response.body.masked_answers) |-> FALSE],
          pc |-> "ready",
          slot |-> 0,
          message |-> "started"]

\* guess, lines 101-137, given the server's response
guess_returned(c, response) ==
    IF response.status = 500 THEN ClientReady(c, "guess_failed")   \* resp.json() raises
    ELSE IF response.status # 200 THEN ClientReady(c, "bad_data")  \* no is_correct in data
    ELSE LET data == response.body
             hit == /\ data.is_correct
                    /\ 0 <= data.correct_index
                    /\ data.correct_index < Len(data.revealed_answers)
             repeated == hit /\ c.current_guessed_flags[data.correct_index + 1]
         IN  [current_round_id |-> c.current_round_id,
              current_guessed_flags |->
                  IF hit /\ ~repeated
                  THEN [c.current_guessed_flags EXCEPT ![data.correct_index + 1] = TRUE]
                  ELSE c.current_guessed_flags,
              pc |-> "ready",
              slot |-> 0,
              message |-> IF data.game_over THEN "game_over"
                          ELSE IF repeated THEN "already_guessed"
                          ELSE IF data.is_correct THEN "correct"
                          ELSE "wrong"]

\* the player starts a round: the handler posts and blocks
ClientStartRound(r, search_term_prefix, maximum_strikes) ==
    /\ client.pc = "ready"
    /\ StartRoundCall(r, search_term_prefix, maximum_strikes)
    /\ client' = [client EXCEPT !.pc = "start", !.slot = r]

\* the server answers the start_round the handler waits for
ClientStartRoundReturns(source) ==
    /\ client.pc = "start"
    /\ StartRoundResume(client.slot, source)
    /\ client' = start_round_returned(client, last')

\* the player guesses before any round was started (lines 87-88)
ClientGuessWithoutRound ==
    /\ client.pc = "ready"
    /\ client.current_round_id = NoRoundYet
    /\ client.message # "no_round"
    /\ client' = [client EXCEPT !.message = "no_round"]
    /\ UNCHANGED <<round_states_by_identifier, requests, last, first_matched>>

\* the player guesses: the handler posts and blocks
ClientGuess(r) ==
    /\ client.pc = "ready"
    /\ client.current_round_id # NoRoundYet
    /\ SubmitGuessCall(r, client.current_round_id)
    /\ client' = [client EXCEPT !.pc = "guess", !.slot = r]

\* the server answers the guess the handler waits for
ClientGuessReturns(reply) ==
    /\ client.pc = "guess"
    /\ SubmitGuessResume(client.slot, reply)
    /\ client' = guess_returned(client, last')

\* requests.post gives up (timeout=10 / timeout=20, or the connection breaks);
\* the server's handler goes on
ClientTimeout ==
    /\ client.pc \in {"start", "guess"}
    /\ client' = ClientReady(client, IF client.pc = "start" THEN "start_failed"
                                     ELSE "guess_failed")
    /\ UNCHANGED <<round_states_by_identifier, requests, last, first_matched>>

\* the server finishes a request whose response nobody waits for any more
Abandoned(r) == ~(client.pc \in {"start", "guess"} /\ client.slot = r)

AbandonedStartRoundResume(r, source) ==
    /\ Abandoned(r)
    /\ StartRoundResume(r, source)
    /\ UNCHANGED client

AbandonedSubmitGuessResume(r, reply) ==
    /\ Abandoned(r)
    /\ SubmitGuessResume(r, reply)
    /\ UNCHANGED client

\* The front end playing against the server
NextClient ==
    \/ \E r \in Requests, p \in Prefixes, m \in RoundsStrikesArgs : ClientStartRound(r, p, m)
    \/ \E source \in SourceReplies : ClientStartRoundReturns(source)
    \/ ClientGuessWithoutRound
    \/ \E r \in Requests : ClientGuess(r)
    \/ \E reply \in JudgeReplies : ClientGuessReturns(reply)
    \/ ClientTimeout
    \/ \E r \in Requests, source \in SourceReplies : AbandonedStartRoundResume(r, source)
    \/ \E r \in Requests, reply \in JudgeReplies : AbandonedSubmitGuessResume(r, reply)

SpecClient == Init /\ [][NextClient]_vars

----------------------------------------------------------------------------
(* Vocabulary of the properties *)

Round(id) == round_states_by_identifier[id]
RoundAfter(id) == round_states_by_identifier'[id]

AllRevealed(round_state) ==
    \A k \in 1..Len(round_state.revealed_flags) : round_state.revealed_flags[k]

RECURSIVE SumOfPoints(_)
SumOfPoints(indexes) ==
    IF indexes = {} THEN 0
    ELSE LET index == CHOOSE i \in indexes : TRUE
         IN  points_by_index(index) + SumOfPoints(indexes \ {index})

\* the step is request r's handler finishing a guess on an answer of the judge
GuessCompletes(r) == requests[r].pc = "judge" /\ requests'[r] = Idle

Answered(r) == last'.op = "submit_guess" /\ last'.status = 200

\* the text the model produced, when the judge's reply carries one
HasOutput(reply) ==
    /\ reply.t = "body"
    /\ Parses(reply.text)
    /\ reply.text.value.j = "obj"
    /\ "response" \in DOMAIN reply.text.value.fields
    /\ reply.text.value.fields["response"].j = "doc"

Output(reply) == reply.text.value.fields["response"].text

----------------------------------------------------------------------------
(* C1: in every reachable state, every round has strikes <= maximum_strikes.   *)
(* Stated for rounds created with a positive ceiling, where it does not rest  *)
(* on the ceiling itself being wrong.                                         *)
C1_StrikesNeverExceedCeiling ==
    \A id \in Stored :
        Round(id).maximum_strikes >= 1 => Round(id).strikes <= Round(id).maximum_strikes

(* C2: a guess applied to a round that is already terminal leaves the round's *)
(* score, strikes and revealed flags as they were, and a response to it is    *)
(* the terminal view. Stated for rounds created with a positive ceiling.      *)
C2_TerminalGuessIsNoOp ==
    [][\A r \in Requests :
          (/\ GuessCompletes(r)
           /\ Round(requests[r].round_identifier).maximum_strikes >= 1
           /\ GameOver(Round(requests[r].round_identifier)))
          => /\ round_states_by_identifier' = round_states_by_identifier
             /\ Answered(r) =>
                   /\ last'.body.game_over
                   /\ last'.body.revealed_answers =
                          Round(requests[r].round_identifier).answer_full_terms]_vars

(* C3: every round's score is the sum of points_by_index over the indices     *)
(* that a guess was judged to match while their flag was still false.         *)
C3_ScoreIsSumOfFirstMatches ==
    \A id \in Stored : Round(id).score = SumOfPoints(first_matched[id])

\* a round ended by strikes with one of two answers matched, then revealed whole
C3_Witness ==
    \E id \in Stored :
        /\ Len(Round(id).answer_full_terms) = 2
        /\ first_matched[id] = {1}
        /\ AllRevealed(Round(id))
        /\ Round(id).strikes >= 1
        /\ Round(id).score = 900

(* C4: every round with strikes >= maximum_strikes has every flag revealed.   *)
C4_TerminalRoundIsRevealed ==
    \A id \in Stored : GameOver(Round(id)) => AllRevealed(Round(id))

(* C5: every stored round has maximum_strikes >= 1.                           *)
C5_CeilingIsPositive ==
    \A id \in Stored : Round(id).maximum_strikes >= 1

\* the effect of a miss on the round a guess of request r was judged on
CountedAsMiss(r) ==
    LET id == requests[r].round_identifier IN
    /\ Answered(r)
    /\ ~last'.body.is_correct
    /\ last'.body.correct_index = -1
    /\ RoundAfter(id).strikes = Round(id).strikes + 1
    /\ RoundAfter(id).score = Round(id).score
    /\ \A k \in 1..Len(Round(id).revealed_flags) :
           Round(id).revealed_flags[k] => RoundAfter(id).revealed_flags[k]
    /\ \/ RoundAfter(id).revealed_flags = Round(id).revealed_flags
       \/ GameOver(RoundAfter(id)) /\ AllRevealed(RoundAfter(id))

UndecodableOutput(reply) ==
    HasOutput(reply) /\ Output(reply).form \in {"empty", "blank", "garbage"}

UndecodableOutputs == {reply \in AllJudgeReplies : UndecodableOutput(reply)}

(* C6: when the judge's output is empty or is not JSON text, a guess on an    *)
(* active round is answered without error as a miss: is_correct false,        *)
(* correct_index -1, one more strike, score and revealed flags kept.          *)
(* (Every completion on an active round is a miss or is the step of no such   *)
(* output.)                                                                   *)
C6_UndecodableOutputIsAMiss ==
    [][\A r \in Requests :
          (GuessCompletes(r) /\ ~GameOver(Round(requests[r].round_identifier)))
          => \/ CountedAsMiss(r)
             \/ \A reply \in UndecodableOutputs : ~SubmitGuessResume(r, reply)]_vars

\* an empty output answered as a strike on a round that has a revealed answer,
\* a hidden one and points, and that goes on
C6_Witness ==
    /\ last.op = "submit_guess"
    /\ last.status = 200
    /\ last.path \in {"empty", "undecodable"}
    /\ last.body.strikes = 1
    /\ ~last.body.game_over
    /\ last.body.score = 1000
    /\ Round(last.round_identifier).revealed_flags = <<TRUE, FALSE>>

TransportFailure(reply) ==
    reply.t = "failure" \/ (reply.t = "body" /\ ~Parses(reply.text))

TransportFailures == {reply \in AllJudgeReplies : TransportFailure(reply)}

(* C7: a judge call that times out, or whose transport body does not parse,   *)
(* is answered like a miss: a normal response with is_correct false and       *)
(* correct_index -1, and one more strike.                                     *)
C7_TransportFailureIsAMiss ==
    [][\A r \in Requests, reply \in TransportFailures :
          (GuessCompletes(r) /\ SubmitGuessResume(r, reply)) => CountedAsMiss(r)]_vars

UnexpectedStructure(reply) ==
    /\ HasOutput(reply)
    /\ Output(reply).form = "json"
    /\ LET value == Output(reply).value
       IN  \/ value.j # "obj"
           \/ /\ "correct_index" \in DOMAIN value.fields
              /\ value.fields["correct_index"].j \in {"null", "str", "list", "obj"}
              /\ ~PyInt(value.fields["correct_index"]).ok

UnexpectedStructures == {reply \in AllJudgeReplies : UnexpectedStructure(reply)}

(* C8: when the judge's output is JSON but not an object, or its              *)
(* correct_index cannot be read as an integer, the guess is answered as a     *)
(* miss and counted as a strike.                                              *)
C8_UnexpectedStructureIsAMiss ==
    [][\A r \in Requests, reply \in UnexpectedStructures :
          (GuessCompletes(r) /\ SubmitGuessResume(r, reply)) => CountedAsMiss(r)]_vars

\* the judge's output is an object whose correct_index is an integer
IntegerIndex(reply) ==
    /\ HasOutput(reply)
    /\ Output(reply).form = "json"
    /\ Output(reply).value.j = "obj"
    /\ "correct_index" \in DOMAIN Output(reply).value.fields
    /\ Output(reply).value.fields["correct_index"].j = "int"

IntegerIndexes == {reply \in AllJudgeReplies : IntegerIndex(reply)}

\* that integer is outside [0, length)
IndexOutOfRange(reply, length) ==
    \/ Output(reply).value.fields["correct_index"].v < 0
    \/ Output(reply).value.fields["correct_index"].v >= length

(* C9: a verdict whose correct_index is an integer outside [0, len(answers)), *)
(* whatever its is_correct, is answered as a miss: is_correct false,          *)
(* correct_index -1, one more strike, score kept, no flag set by a match.     *)
(* (Every completion is a miss or is the step of no such verdict.)            *)
C9_IndexOutOfRangeIsAMiss ==
    [][\A r \in Requests :
          GuessCompletes(r)
          => \/ CountedAsMiss(r)
             \/ \A reply \in IntegerIndexes :
                    ~(/\ IndexOutOfRange(reply,
                            Len(Round(requests[r].round_identifier).answer_full_terms))
                      /\ SubmitGuessResume(r, reply))]_vars

\* a verdict "correct, index len(answers)" answered as a miss on a round that goes on
C9_Witness ==
    /\ last.op = "submit_guess"
    /\ last.status = 200
    /\ last.coerced.is_correct
    /\ last.coerced.correct_index = Len(Round(last.round_identifier).answer_full_terms)
    /\ Len(Round(last.round_identifier).answer_full_terms) = 2
    /\ ~last.body.is_correct
    /\ last.body.correct_index = -1
    /\ last.body.strikes = 1
    /\ ~last.body.game_over
    /\ Round(last.round_identifier).revealed_flags = <<FALSE, FALSE>>

(* C10: a guess on an identifier that is no key of the store is answered 404, *)
(* no judge call is started for it, and the store is left as it was.          *)
C10_UnknownRoundIsNotFound ==
    [][\A r \in Requests, id \in GuessIdentifiers :
          (id \notin Stored /\ SubmitGuessCall(r, id))
          => /\ last' = ErrorResponse("submit_guess", 404, id, "lookup")
             /\ requests' = requests
             /\ round_states_by_identifier' = round_states_by_identifier]_vars

\* not found, answered while a round with a strike and points is in the store
C10_Witness ==
    /\ last.op = "submit_guess"
    /\ last.status = 404
    /\ last.round_identifier \notin Stored
    /\ \E id \in Stored : Round(id).strikes >= 1 /\ Round(id).score > 0

\* the step is request r's handler finishing a start_round on an answer of the source
StartCompletes(r) == requests[r].pc = "fetch" /\ requests'[r] = Idle

\* no list of candidates comes out of the reply: no connection, a timeout, an
\* empty body, a body that does not parse
FailedFetch(source) == source.t = "failure" \/ ~Parses(source.text)

FailedFetches == {source \in SourceReplies : FailedFetch(source)}

(* C11: a start_round whose fetch fails (no connection, timeout, empty body,   *)
(* body that does not parse) is answered with an error and leaves the store   *)
(* exactly as it was; the keys of the store change only in a step in which a  *)
(* fetch returned a list and start_round answered normally.                   *)
C11_FailedFetchCreatesNoRound ==
    [][/\ \A r \in Requests :
             StartCompletes(r)
             => \/ /\ last'.op = "start_round"
                   /\ last'.status # 200
                   /\ round_states_by_identifier' = round_states_by_identifier
                \/ \A source \in FailedFetches : ~StartRoundResume(r, source)
       /\ DOMAIN round_states_by_identifier' # DOMAIN round_states_by_identifier
             => /\ \E r \in Requests : StartCompletes(r)
                /\ last'.op = "start_round"
                /\ last'.status = 200]_vars

\* a failed start_round answered while a played round is in the store
C11_Witness ==
    /\ last.op = "start_round"
    /\ last.status = 502
    /\ \E id \in Stored : Round(id).score > 0 /\ Round(id).strikes >= 1

(* C12: a start_round that succeeds adds exactly one round, under an          *)
(* identifier that was no key of the store, with score 0, strikes 0 and every *)
(* flag false; every round already stored stays as it was; the response names *)
(* that identifier and its masked_answers has one hidden entry for each       *)
(* fetched candidate (none for an empty list).                                *)
C12_StartRoundAddsOneFreshRound ==
    [][\A r \in Requests :
          (StartCompletes(r) /\ last'.status = 200)
          => LET id == last'.body.round_identifier IN
             /\ id \notin Stored
             /\ DOMAIN round_states_by_identifier' = Stored \cup {id}
             /\ \A other \in Stored : RoundAfter(other) = Round(other)
             /\ RoundAfter(id).score = 0
             /\ RoundAfter(id).strikes = 0
             /\ Len(RoundAfter(id).revealed_flags) = Len(RoundAfter(id).answer_full_terms)
             /\ \A k \in 1..Len(RoundAfter(id).revealed_flags) :
                    ~RoundAfter(id).revealed_flags[k]
             /\ Len(last'.body.masked_answers) = Len(RoundAfter(id).answer_full_terms)
             /\ \A k \in 1..Len(last'.body.masked_answers) :
                    last'.body.masked_answers[k] = Hidden
             /\ \E source \in SourceReplies :
                    LET fetched == fetch_bilibili_suggestion_terms(
                                       requests[r].search_term_prefix, source)
                    IN  fetched.ok /\ fetched.terms = RoundAfter(id).answer_full_terms]_vars

\* a second round created next to a played one
C12_Witness ==
    /\ last.op = "start_round"
    /\ last.status = 200
    /\ Len(last.body.masked_answers) = MaxTagEntries
    /\ \E id \in Stored \ {last.body.round_identifier} :
           Round(id).score > 0 /\ Round(id).strikes >= 1

\* a round created with no candidate at all
C12_WitnessEmpty ==
    /\ last.op = "start_round"
    /\ last.status = 200
    /\ last.body.masked_answers = <<>>

(* C13: the candidates and the prefix of a stored round never change; the    *)
(* masked_answers of start_round has one entry for each candidate; in every   *)
(* GuessResponse revealed_answers has one entry for each candidate, each      *)
(* entry is hidden or is the candidate at its position, it is the candidate   *)
(* exactly when the flag at its position is true, and with game_over true     *)
(* every entry is the candidate.                                              *)
C13_RevealedAnswersMirrorRound ==
    [][/\ \A id \in Stored :
             /\ id \in DOMAIN round_states_by_identifier'
             /\ RoundAfter(id).answer_full_terms = Round(id).answer_full_terms
             /\ RoundAfter(id).search_term_prefix = Round(id).search_term_prefix
       /\ (last'.op = "start_round" /\ last'.status = 200)
             => Len(last'.body.masked_answers) =
                    Len(RoundAfter(last'.round_identifier).answer_full_terms)
       /\ (last'.op = "submit_guess" /\ last'.status = 200)
             => LET round_state == RoundAfter(last'.round_identifier)
                    revealed_answers == last'.body.revealed_answers
                IN  /\ Len(revealed_answers) = Len(round_state.answer_full_terms)
                    /\ \A k \in 1..Len(revealed_answers) :
                           /\ revealed_answers[k] \in {Hidden, round_state.answer_full_terms[k]}
                           /\ revealed_answers[k] # Hidden <=> round_state.revealed_flags[k]
                    /\ last'.body.game_over
                          => revealed_answers = round_state.answer_full_terms]_vars

\* game over answered with both answers shown, of which one was never matched
C13_Witness ==
    /\ last.op = "submit_guess"
    /\ last.status = 200
    /\ last.body.game_over
    /\ Len(last.body.revealed_answers) = 2
    /\ last.body.revealed_answers = Round(last.round_identifier).answer_full_terms
    /\ first_matched[last.round_identifier] = {0}

(* C14: a guess judged a valid match of an index whose flag is already true   *)
(* leaves the round as it was: same score, same strikes, same flags, and the  *)
(* response carries that score and those strikes.                             *)
C14_RepeatMatchChangesNothing ==
    [][\A r \in Requests :
          LET id == requests[r].round_identifier IN
          (/\ GuessCompletes(r)
           /\ Answered(r)
           /\ last'.body.is_correct
           /\ Round(id).revealed_flags[last'.body.correct_index + 1])
          => /\ RoundAfter(id) = Round(id)
             /\ last'.body.score = Round(id).score
             /\ last'.body.strikes = Round(id).strikes]_vars

\* the first answer matched again on a round with a strike that goes on
C14_Witness ==
    /\ last.op = "submit_guess"
    /\ last.status = 200
    /\ last.branch = "repeat"
    /\ last.body.correct_index = 0
    /\ last.body.score = 1000
    /\ last.body.strikes = 1
    /\ ~last.body.game_over
    /\ Round(last.round_identifier).revealed_flags = <<TRUE, FALSE>>

(* C15: whatever the order in which suspended guesses on one round resume, no *)
(* flag goes back to false and the score of a round changes only by           *)
(* points_by_index[i] of one index i whose flag was false before the step and *)
(* is true after it: no index is paid twice.                                  *)
C15_EachIndexPaidOnce ==
    [][\A id \in Stored :
          /\ \A k \in 1..Len(Round(id).revealed_flags) :
                 Round(id).revealed_flags[k] => RoundAfter(id).revealed_flags[k]
          /\ RoundAfter(id).score # Round(id).score
                => \E i \in 0..(Len(Round(id).revealed_flags) - 1) :
                       /\ ~Round(id).revealed_flags[i + 1]
                       /\ RoundAfter(id).revealed_flags[i + 1]
                       /\ RoundAfter(id).score = Round(id).score + points_by_index(i)]_vars

\* a guess has just been paid for the first answer while another guess, sent
\* before that, is still waiting for the judge on the same round
C15_Witness ==
    /\ last.op = "submit_guess"
    /\ last.status = 200
    /\ last.branch = "first"
    /\ last.body.correct_index = 0
    /\ \E q \in InFlight("judge") : requests[q].round_identifier = last.round_identifier

(* C16: while a guess on round A waits for the judge, every operation on      *)
(* another round can take its next step: a guess on a stored round B # A can  *)
(* be accepted and sent to the judge, a guess on B that waits for the judge   *)
(* can resume and complete, a start_round can be accepted, and one that waits *)
(* for the source can resume and complete. (A new request needs a free slot   *)
(* of the model, a round below StrikeCap, a store below MaxRounds.)           *)
C16_OtherRoundsAreNotBlocked ==
    \A q \in InFlight("judge") :
        \A r \in Requests \ {q} :
            /\ (requests[r].pc = "judge"
                   /\ requests[r].round_identifier # requests[q].round_identifier)
                  => ENABLED (/\ \E reply \in JudgeReplies : SubmitGuessResume(r, reply)
                              /\ UNCHANGED client)
            /\ requests[r].pc = "fetch"
                  => ENABLED (/\ \E source \in SourceReplies : StartRoundResume(r, source)
                              /\ UNCHANGED client)
            /\ FreeSlot(r)
                  => /\ \A id \in Stored \ {requests[q].round_identifier} :
                            Round(id).strikes < StrikeCap
                            => ENABLED (SubmitGuessCall(r, id) /\ UNCHANGED client)
                     /\ Cardinality(Stored) + Cardinality(InFlight("fetch")) < MaxRounds
                            => ENABLED (/\ \E p \in Prefixes, m \in RoundsStrikesArgs :
                                              StartRoundCall(r, p, m)
                                        /\ UNCHANGED client)

\* a guess on one round was sent, judged and paid while a guess on another
\* round, sent before it was answered, still waits for the judge
C16_Witness ==
    /\ last.op = "submit_guess"
    /\ last.status = 200
    /\ last.branch = "first"
    /\ \E q \in InFlight("judge") :
           /\ requests[q].round_identifier # last.round_identifier
           /\ Round(requests[q].round_identifier).score = 0
           /\ Round(requests[q].round_identifier).strikes = 0

\* the entries of the result section of a reply that has one
TagEntries(source) == source.text.value.fields["data"].fields["result"].fields["tag"].items

\* positions of the entries that have a non-empty term starting with the prefix
MatchingPositions(search_term_prefix, tag_entries) ==
    {k \in 1..Len(tag_entries) :
        /\ "term" \in DOMAIN tag_entries[k].fields
        /\ tag_entries[k].fields["term"].v # <<>>
        /\ StartsWith(tag_entries[k].fields["term"].v, search_term_prefix)}

\* the j-th smallest of a set of positions
Nth(positions, j) == CHOOSE k \in positions : Cardinality({x \in positions : x <= k}) = j

\* the terms at the first MaxAnswers matching positions, in the order of the source
ExpectedCandidates(search_term_prefix, tag_entries) ==
    LET positions == MatchingPositions(search_term_prefix, tag_entries)
        n == IF Cardinality(positions) < MaxAnswers THEN Cardinality(positions)
             ELSE MaxAnswers
    IN  [j \in 1..n |-> tag_entries[Nth(positions, j)].fields["term"].v]

(* C17: the candidates of a round started with prefix p are the terms of the  *)
(* source's entries that have a non-empty term starting with p (same case, no *)
(* normalisation), in the order of the source, the first 10 of them; a reply  *)
(* whose result section is missing or empty gives a round without candidates; *)
(* every stored round has at most 10 candidates, each starting with its       *)
(* prefix.                                                                    *)
C17_CandidatesAreFirstTenMatches ==
    [][\A r \in Requests :
          StartCompletes(r)
          => /\ \A source \in ListReplies :
                    StartRoundResume(r, source)
                    => /\ last'.status = 200
                       /\ RoundAfter(last'.round_identifier).answer_full_terms =
                              ExpectedCandidates(requests[r].search_term_prefix,
                                                 TagEntries(source))
             /\ \A source \in NoResultReplies :
                    StartRoundResume(r, source)
                    => /\ last'.status = 200
                       /\ RoundAfter(last'.round_identifier).answer_full_terms = <<>>
             /\ last'.status = 200
                    => LET round_state == RoundAfter(last'.round_identifier)
                       IN  /\ Len(round_state.answer_full_terms) <= MaxAnswers
                           /\ \A k \in 1..Len(round_state.answer_full_terms) :
                                  StartsWith(round_state.answer_full_terms[k],
                                             round_state.search_term_prefix)]_vars

\* a round of 10 candidates made from a list in which more than 10 entries
\* matched and the first, in the wrong case, did not
C17_Witness ==
    /\ last.op = "start_round"
    /\ last.status = 200
    /\ last.path = "cut"
    /\ Round(last.round_identifier).search_term_prefix = <<"c">>
    /\ Len(Round(last.round_identifier).answer_full_terms) = MaxAnswers
    /\ Round(last.round_identifier).answer_full_terms[1] = SourceTerm(2)

(* C18: a guess answered on an active round does exactly one of: count one   *)
(* strike and keep the score (the flags stay, or all become true when the     *)
(* strikes reach maximum_strikes); set the flag of the matched index, which   *)
(* was false, and add points_by_index of it, keeping the strikes and every    *)
(* other flag; change nothing (the flag of the matched index was true). The   *)
(* rest of the round and every other round of the store stay as they were.    *)
C18_OneBranchAndNothingElse ==
    [][\A r \in Requests :
          LET id == requests[r].round_identifier IN
          (GuessCompletes(r) /\ Answered(r) /\ ~GameOver(Round(id)))
          => LET before == Round(id)
                 after == RoundAfter(id)
                 i == last'.body.correct_index
             IN  /\ DOMAIN round_states_by_identifier' = Stored
                 /\ \A other \in Stored \ {id} : RoundAfter(other) = Round(other)
                 /\ after.answer_full_terms = before.answer_full_terms
                 /\ after.search_term_prefix = before.search_term_prefix
                 /\ after.maximum_strikes = before.maximum_strikes
                 /\ \/ /\ ~last'.body.is_correct
                       /\ after.strikes = before.strikes + 1
                       /\ after.score = before.score
                       /\ after.revealed_flags =
                              IF after.strikes >= after.maximum_strikes
                              THEN [k \in 1..Len(before.revealed_flags) |-> TRUE]
                              ELSE before.revealed_flags
                    \/ /\ last'.body.is_correct
                       /\ ~before.revealed_flags[i + 1]
                       /\ after.revealed_flags = [before.revealed_flags EXCEPT ![i + 1] = TRUE]
                       /\ after.score = before.score + points_by_index(i)
                       /\ after.strikes = before.strikes
                    \/ /\ last'.body.is_correct
                       /\ before.revealed_flags[i + 1]
                       /\ after = before]_vars

\* the second answer matched first on a round with a strike, next to a played round
C18_Witness ==
    /\ last.op = "submit_guess"
    /\ last.status = 200
    /\ last.branch = "first"
    /\ last.body.correct_index = 1
    /\ last.body.strikes = 1
    /\ last.body.score = 900
    /\ ~last.body.game_over
    /\ \E id \in Stored \ {last.round_identifier} : Round(id).score = 1000

\* the step is the front end's guess handler receiving a GuessResponse
ClientReceivesGuess ==
    /\ client.pc = "guess"
    /\ GuessCompletes(client.slot)
    /\ Answered(client.slot)
    /\ client'.pc = "ready"

(* C19: when the front end receives the response of a guess on which the      *)
(* server took the repeat branch on a round that goes on, it reports "already *)
(* guessed", and it never reports that for a guess the server paid; this      *)
(* after any sequence of starts and guesses, guesses whose response did not   *)
(* arrive included.                                                           *)
C19_ClientTellsRepeatFromFirst ==
    [][ClientReceivesGuess
          => /\ (last'.branch = "repeat" /\ ~last'.body.game_over)
                   => client'.message = "already_guessed"
             /\ last'.branch = "first" => client'.message # "already_guessed"]_vars

(* C20: a submit_guess that ends in an error (unknown round, exception in the *)
(* judge call, verdict that cannot be read) leaves the whole store as it was. *)
C20_FailedGuessChangesNothing ==
    [][(last'.op = "submit_guess" /\ last'.status # 200)
          => round_states_by_identifier' = round_states_by_identifier]_vars

\* a verdict that could not be read, answered 500 on a played round
C20_Witness ==
    /\ last.op = "submit_guess"
    /\ last.status = 500
    /\ last.path = "coercion"
    /\ Round(last.round_identifier).strikes >= 1
    /\ Round(last.round_identifier).score > 0

====
